---- MODULE Spec2Model ----
(***************************************************************************)
(* A model of the Carlae interpreter of src/lab.py: tokenizer, parser,     *)
(* environments, closures, builtins and the evaluator, driven the way      *)
(* run_repl drives them (one global environment, one run_carlae per line). *)
(*                                                                         *)
(* Representation.  A source text is a sequence of one-character strings;  *)
(* a token (a Python str) is a sequence of characters too, so that the     *)
(* character-wise work of tokenize, int() and float() is modelled by what  *)
(* it does.  Every Python object the interpreter handles is a record       *)
(* [k |-> kind, v |-> payload]:                                            *)
(*    "int"      v = the integer                                           *)
(*    "float"    v = <<n, d>>, the value n/d in lowest terms, d > 0        *)
(*    "sym"      v = the characters of a str                               *)
(*    "list"     v = the sequence of elements                              *)
(*    "prim"     v = the characters of the builtin's name                  *)
(*    "closure"  v = [parameters, body, enclosing_env] (a CarlaeFunction)  *)
(*    "none"     Python's None                                             *)
(*    "error"    v = the name of the exception class that was raised       *)
(* The character alphabet of the inputs holds no "e", "E", "_" and spells  *)
(* neither inf nor nan, so the numeric literals are [sign] digits and      *)
(* [sign] digits "." digits; floats are exact rationals, and the operands  *)
(* are chosen so that IEEE arithmetic on them is exact as well.            *)
(***************************************************************************)
EXTENDS Integers, Sequences, FiniteSets, TLC

VARIABLES
    stage,      \* which step of the pipeline the state is at
    source,     \* the source text given to tokenize / run_carlae
    tokens,     \* the token list
    result,     \* what the last operation returned or raised
    op,         \* the builtin applied (arithmetic specification)
    args,       \* its argument list
    heap,       \* the Environment objects, by identity (index)
    log,        \* history of the last run: lookups, bindings, calls
    runs        \* number of run_carlae calls made by the REPL

vars == <<stage, source, tokens, result, op, args, heap, log, runs>>

(***************************************************************************)
(* Bounds of the model.                                                    *)
(***************************************************************************)
MaxSrcLen == 5
MaxTokens == 8
MaxArgs == 4
MaxRuns == 4

(***************************************************************************)
(* Constructors of the tagged values.                                      *)
(***************************************************************************)
IntV(n) == [k |-> "int", v |-> n]
FloatV(n, d) == [k |-> "float", v |-> <<n, d>>]
SymV(s) == [k |-> "sym", v |-> s]
ListV(s) == [k |-> "list", v |-> s]
PrimV(s) == [k |-> "prim", v |-> s]
None == [k |-> "none", v |-> 0]
Err(name) == [k |-> "error", v |-> name]
IsErr(x) == x.k = "error"

CarlaeErrors == {"CarlaeSyntaxError", "CarlaeNameError", "CarlaeEvaluationError"}

(***************************************************************************)
(* Tokenization.                                                           *)
(***************************************************************************)
parenthesis == {"(", ")"}
keywords == {<<":", "=">>, <<"f", "u", "n", "c", "t", "i", "o", "n">>}
whitespace == {" ", "\n"}
comment == "#"
delimiters == parenthesis \cup whitespace

\* A plausible slip: the comment test placed before the newline test, so a
\* newline inside a comment no longer ends it.
tokenize_char_sticky(s, char) ==
    LET flushed == IF char \in delimiters /\ s.current_token /= <<>>
                   THEN Append(s.tokens, s.current_token) ELSE s.tokens
        cur == IF char \in delimiters THEN <<>> ELSE s.current_token
    IN  IF s.is_comment
        THEN [tokens |-> flushed, current_token |-> cur, is_comment |-> TRUE]
        ELSE IF char \in whitespace
        THEN [tokens |-> flushed, current_token |-> cur, is_comment |-> FALSE]
        ELSE IF char \in parenthesis
        THEN [tokens |-> Append(flushed, <<char>>), current_token |-> cur,
              is_comment |-> FALSE]
        ELSE IF char = comment
        THEN [tokens |-> flushed, current_token |-> cur, is_comment |-> TRUE]
        ELSE LET built == Append(cur, char)
             IN  IF built \in keywords
                 THEN [tokens |-> Append(flushed, built), current_token |-> <<>>,
                       is_comment |-> FALSE]
                 ELSE [tokens |-> flushed, current_token |-> built,
                       is_comment |-> FALSE]

\* One iteration of tokenize's loop over the characters of source.
tokenize_char(s, char) ==
    LET flushed == IF char \in delimiters /\ s.current_token /= <<>>
                   THEN Append(s.tokens, s.current_token) ELSE s.tokens
        cur == IF char \in delimiters THEN <<>> ELSE s.current_token
    IN  IF char \in whitespace
        THEN [tokens |-> flushed, current_token |-> cur,
              is_comment |-> IF char = "\n" THEN FALSE ELSE s.is_comment]
        ELSE IF s.is_comment
        THEN [tokens |-> flushed, current_token |-> cur, is_comment |-> TRUE]
        ELSE IF char \in parenthesis
        THEN [tokens |-> Append(flushed, <<char>>), current_token |-> cur,
              is_comment |-> FALSE]
        ELSE IF char = comment
        THEN [tokens |-> flushed, current_token |-> cur, is_comment |-> TRUE]
        ELSE LET built == Append(cur, char)
             IN  IF built \in keywords
                 THEN [tokens |-> Append(flushed, built), current_token |-> <<>>,
                       is_comment |-> FALSE]
                 ELSE [tokens |-> flushed, current_token |-> built,
                       is_comment |-> FALSE]

RECURSIVE tokenize_loop(_, _, _)
tokenize_loop(src, i, s) ==
    IF i > Len(src) THEN s
    ELSE tokenize_loop(src, i + 1, tokenize_char(s, src[i]))

tokenize(src) ==
    LET s == tokenize_loop(src, 1, [tokens |-> <<>>, current_token |-> <<>>,
                                    is_comment |-> FALSE])
    IN  IF s.current_token /= <<>> THEN Append(s.tokens, s.current_token)
        ELSE s.tokens

(***************************************************************************)
(* number_or_symbol: int(x), else float(x), else x.                        *)
(***************************************************************************)
Digits == {"0", "1", "2", "3", "4", "5", "6", "7", "8", "9"}

DigitVal(c) ==
    CASE c = "0" -> 0 [] c = "1" -> 1 [] c = "2" -> 2 [] c = "3" -> 3
      [] c = "4" -> 4 [] c = "5" -> 5 [] c = "6" -> 6 [] c = "7" -> 7
      [] c = "8" -> 8 [] c = "9" -> 9

RECURSIVE DigitsVal(_)
DigitsVal(s) ==
    IF s = <<>> THEN 0
    ELSE 10 * DigitsVal(SubSeq(s, 1, Len(s) - 1)) + DigitVal(s[Len(s)])

RECURSIVE Pow10(_)
Pow10(n) == IF n = 0 THEN 1 ELSE 10 * Pow10(n - 1)

Abs(n) == IF n < 0 THEN -n ELSE n

RECURSIVE Gcd(_, _)
Gcd(a, b) == IF b = 0 THEN a ELSE Gcd(b, a % b)

\* The float n/d, in lowest terms with a positive denominator.
Ratio(n, d) ==
    LET g == Gcd(Abs(n), Abs(d))
        sgn == IF d < 0 THEN -1 ELSE 1
    IN  FloatV(sgn * (n \div g), sgn * (d \div g))

AllDigits(s) == \A i \in 1..Len(s) : s[i] \in Digits

Unsigned(x) == IF x /= <<>> /\ x[1] \in {"+", "-"} THEN Tail(x) ELSE x
SignOf(x) == IF x /= <<>> /\ x[1] = "-" THEN -1 ELSE 1

\* int(x) succeeds: an optional sign and at least one digit.
IsIntLiteral(x) == Unsigned(x) /= <<>> /\ AllDigits(Unsigned(x))

DotPositions(u) == {i \in 1..Len(u) : u[i] = "."}

\* float(x) succeeds: an optional sign, digits with at most one ".", and at
\* least one digit.
IsFloatLiteral(x) ==
    LET u == Unsigned(x)
    IN  /\ \A i \in 1..Len(u) : u[i] \in Digits \cup {"."}
        /\ Cardinality(DotPositions(u)) <= 1
        /\ \E i \in 1..Len(u) : u[i] \in Digits

FloatOf(x) ==
    LET u == Unsigned(x)
        dots == DotPositions(u)
        p == IF dots = {} THEN Len(u) + 1 ELSE CHOOSE i \in dots : TRUE
        whole == SubSeq(u, 1, p - 1)
        frac == SubSeq(u, p + 1, Len(u))
    IN  Ratio(SignOf(x) * (DigitsVal(whole) * Pow10(Len(frac)) + DigitsVal(frac)),
              Pow10(Len(frac)))

number_or_symbol(x) ==
    IF IsIntLiteral(x) THEN IntV(SignOf(x) * DigitsVal(Unsigned(x)))
    ELSE IF IsFloatLiteral(x) THEN FloatOf(x)
    ELSE SymV(x)

(***************************************************************************)
(* Parsing.                                                                *)
(***************************************************************************)
\* Python's inner_tokens[a : b] for 0 <= a <= b <= len, on a 1-based sequence.
Slice(s, a, b) == SubSeq(s, a + 1, b)

\* A plausible slip in _group_tokens: the final "paren_stack > 0" test left
\* out, so an unclosed group is dropped without an error.
RECURSIVE group_loop_unclosed(_, _, _, _, _)
group_loop_unclosed(inner, i, groups, opening_parenthesis_index, paren_stack) ==
    IF i >= Len(inner)
    THEN ListV(groups)
    ELSE LET token == inner[i + 1]
         IN  IF token = <<"(">>
             THEN group_loop_unclosed(inner, i + 1, groups,
                      IF opening_parenthesis_index < 0 THEN i
                      ELSE opening_parenthesis_index,
                      paren_stack + 1)
             ELSE IF token = <<")">>
             THEN IF paren_stack - 1 < 0 THEN Err("CarlaeSyntaxError")
                  ELSE IF paren_stack - 1 = 0
                  THEN group_loop_unclosed(inner, i + 1,
                           Append(groups, Slice(inner, opening_parenthesis_index, i + 1)),
                           -1, 0)
                  ELSE group_loop_unclosed(inner, i + 1, groups,
                           opening_parenthesis_index, paren_stack - 1)
             ELSE IF opening_parenthesis_index >= 0
             THEN group_loop_unclosed(inner, i + 1, groups,
                      opening_parenthesis_index, paren_stack)
             ELSE group_loop_unclosed(inner, i + 1, Append(groups, <<token>>),
                      opening_parenthesis_index, paren_stack)

\* The loop of _group_tokens over enumerate(inner_tokens), i counted from 0,
\* and the test that follows it.
RECURSIVE group_loop(_, _, _, _, _)
group_loop(inner, i, groups, opening_parenthesis_index, paren_stack) ==
    IF i >= Len(inner)
    THEN IF paren_stack > 0 THEN Err("CarlaeSyntaxError") ELSE ListV(groups)
    ELSE LET token == inner[i + 1]
         IN  IF token = <<"(">>
             THEN group_loop(inner, i + 1, groups,
                      IF opening_parenthesis_index < 0 THEN i
                      ELSE opening_parenthesis_index,
                      paren_stack + 1)
             ELSE IF token = <<")">>
             THEN IF paren_stack - 1 < 0 THEN Err("CarlaeSyntaxError")
                  ELSE IF paren_stack - 1 = 0
                  THEN group_loop(inner, i + 1,
                           Append(groups, Slice(inner, opening_parenthesis_index, i + 1)),
                           -1, 0)
                  ELSE group_loop(inner, i + 1, groups,
                           opening_parenthesis_index, paren_stack - 1)
             ELSE IF opening_parenthesis_index >= 0
             THEN group_loop(inner, i + 1, groups,
                      opening_parenthesis_index, paren_stack)
             ELSE group_loop(inner, i + 1, Append(groups, <<token>>),
                      opening_parenthesis_index, paren_stack)

\* Returns ListV(groups), or the error raised.  tokens[0] of an empty list
\* raises IndexError.
_group_tokens(toks) ==
    IF toks = <<>> THEN Err("IndexError")
    ELSE IF toks[1] /= <<"(">> \/ toks[Len(toks)] /= <<")">>
    THEN Err("CarlaeSyntaxError")
    ELSE group_loop(SubSeq(toks, 2, Len(toks) - 1), 0, <<>>, -1, 0)

RECURSIVE parse(_), parse_groups(_, _, _)
\* [parse(group) for group in groups]: the first failure propagates.
parse_groups(groups, i, acc) ==
    IF i > Len(groups) THEN ListV(acc)
    ELSE LET p == parse(groups[i])
         IN  IF IsErr(p) THEN p ELSE parse_groups(groups, i + 1, Append(acc, p))

parse(toks) ==
    IF Len(toks) = 1
    THEN IF toks[1] = <<"(">> \/ toks[1] = <<")">>
         THEN Err("CarlaeSyntaxError")
         ELSE number_or_symbol(toks[1])
    ELSE LET groups == _group_tokens(toks)
         IN  IF IsErr(groups) THEN groups ELSE parse_groups(groups.v, 1, <<>>)

(***************************************************************************)
(* Python's arithmetic on the tagged numbers.                              *)
(***************************************************************************)
IsNum(x) == x.k \in {"int", "float"}
Numer(x) == IF x.k = "int" THEN x.v ELSE x.v[1]
Denom(x) == IF x.k = "int" THEN 1 ELSE x.v[2]
BothInt(a, b) == a.k = "int" /\ b.k = "int"

\* a + b
py_add(a, b) ==
    IF ~(IsNum(a) /\ IsNum(b)) THEN Err("TypeError")
    ELSE IF BothInt(a, b) THEN IntV(a.v + b.v)
    ELSE Ratio(Numer(a) * Denom(b) + Numer(b) * Denom(a), Denom(a) * Denom(b))

\* a - b
py_sub(a, b) ==
    IF ~(IsNum(a) /\ IsNum(b)) THEN Err("TypeError")
    ELSE IF BothInt(a, b) THEN IntV(a.v - b.v)
    ELSE Ratio(Numer(a) * Denom(b) - Numer(b) * Denom(a), Denom(a) * Denom(b))

\* -a
py_neg(a) ==
    IF ~IsNum(a) THEN Err("TypeError")
    ELSE IF a.k = "int" THEN IntV(-a.v)
    ELSE Ratio(-Numer(a), Denom(a))

RECURSIVE Repeat(_, _)
Repeat(s, n) == IF n <= 0 THEN <<>> ELSE s \o Repeat(s, n - 1)

\* a * b: numbers multiply, a list times an int repeats the list.
py_mul(a, b) ==
    IF IsNum(a) /\ IsNum(b)
    THEN IF BothInt(a, b) THEN IntV(a.v * b.v)
         ELSE Ratio(Numer(a) * Numer(b), Denom(a) * Denom(b))
    ELSE IF a.k = "list" /\ b.k = "int" THEN ListV(Repeat(a.v, b.v))
    ELSE IF a.k = "int" /\ b.k = "list" THEN ListV(Repeat(b.v, a.v))
    ELSE Err("TypeError")

\* A plausible slip: floor division (Python's //) where the code divides.
py_floordiv(a, b) ==
    IF ~(IsNum(a) /\ IsNum(b)) THEN Err("TypeError")
    ELSE IF Numer(b) = 0 THEN Err("ZeroDivisionError")
    ELSE IF BothInt(a, b) THEN IntV(a.v \div b.v)
    ELSE Ratio((Numer(a) * Denom(b)) \div (Denom(a) * Numer(b)), 1)

\* a / b: true division, a float whatever the operands are.
py_truediv(a, b) ==
    IF ~(IsNum(a) /\ IsNum(b)) THEN Err("TypeError")
    ELSE IF Numer(b) = 0 THEN Err("ZeroDivisionError")
    ELSE Ratio(Numer(a) * Denom(b), Denom(a) * Numer(b))

(***************************************************************************)
(* The builtins.                                                           *)
(***************************************************************************)
\* sum(args): 0 + args[0] + args[1] + ...
RECURSIVE sum_from(_, _, _)
sum_from(value, xs, i) ==
    IF i > Len(xs) \/ IsErr(value) THEN value
    ELSE sum_from(py_add(value, xs[i]), xs, i + 1)

sum(xs) == sum_from(IntV(0), xs, 1)

\* lambda args: -args[0] if len(args) == 1 else (args[0] - sum(args[1:]))
subtract(xs) ==
    IF Len(xs) = 1 THEN py_neg(xs[1])
    ELSE IF Len(xs) = 0 THEN Err("IndexError")
    ELSE LET rest == sum(Tail(xs))
         IN  IF IsErr(rest) THEN rest ELSE py_sub(xs[1], rest)

RECURSIVE multiply_from(_, _, _)
multiply_from(value, xs, i) ==
    IF i > Len(xs) \/ IsErr(value) THEN value
    ELSE multiply_from(py_mul(value, xs[i]), xs, i + 1)

multiply(xs) == multiply_from(IntV(1), xs, 1)

RECURSIVE divide_from(_, _, _)
divide_from(value, xs, i) ==
    IF i > Len(xs) \/ IsErr(value) THEN value
    ELSE divide_from(py_truediv(value, xs[i]), xs, i + 1)

divide(xs) ==
    IF Len(xs) = 0 THEN Err("IndexError") ELSE divide_from(xs[1], xs, 2)

\* The names of carlae_builtins.
BuiltinNames == {<<"+">>, <<"-">>, <<"*">>, <<"/">>, <<":", "=">>}

\* func(evaluated_expressions[1:]) for a builtin func.  assignment takes
\* three positional arguments, so calling it with one list is a TypeError.
apply_builtin(name, xs) ==
    CASE name = <<"+">> -> sum(xs)
      [] name = <<"-">> -> subtract(xs)
      [] name = <<"*">> -> multiply(xs)
      [] name = <<"/">> -> divide(xs)
      [] OTHER -> Err("TypeError")

(***************************************************************************)
(* Environments.  heap[e] is the Environment object of identity e:         *)
(* [variables |-> its dict, parent |-> identity of parent_env, 0 for None].*)
(* A dict is a function from keys to values.                               *)
(***************************************************************************)
EmptyDict == [key \in {} |-> None]

\* What can be a dict key (lists are unhashable) and the key it is: 1.0 and
\* 1 are the same key.
hashable(t) == t.k \in {"int", "float", "sym"}
dict_key(t) == IF t.k = "float" /\ t.v[2] = 1 THEN IntV(t.v[1]) ELSE t

\* dict.get(key): the value, or None.
dict_get(d, key) ==
    IF dict_key(key) \in DOMAIN d THEN d[dict_key(key)] ELSE None

\* Python's truth value of an object.
truthy(x) ==
    CASE x.k = "none" -> FALSE
      [] x.k = "int" -> x.v /= 0
      [] x.k = "float" -> x.v[1] /= 0
      [] x.k = "list" -> x.v /= <<>>
      [] x.k = "sym" -> x.v /= <<>>
      [] OTHER -> TRUE

\* Environment.get: the binding if it is truthy, else the parent's answer,
\* else None.
RECURSIVE Environment_get(_, _, _)
Environment_get(hp, e, variable) ==
    LET value == dict_get(hp[e].variables, variable)
    IN  IF truthy(value) THEN value
        ELSE IF hp[e].parent = 0 THEN None
        ELSE Environment_get(hp, hp[e].parent, variable)

\* The environments from e to the root, innermost first.
RECURSIVE Chain(_, _)
Chain(hp, e) == IF e = 0 THEN <<>> ELSE <<e>> \o Chain(hp, hp[e].parent)

Binds(hp, e, variable) == dict_key(variable) \in DOMAIN hp[e].variables

\* The reference walk: the value held by the nearest environment whose own
\* mapping contains the name, None when no environment of the chain does.
RefLookup(hp, e, variable) ==
    LET chain == Chain(hp, e)
        hits == {i \in 1..Len(chain) : Binds(hp, chain[i], variable)}
    IN  IF hits = {} THEN None
        ELSE LET first == CHOOSE i \in hits : \A j \in hits : i <= j
             IN  hp[chain[first]].variables[dict_key(variable)]

\* A plausible slip: the binding written where the name is already bound
\* (the nearest environment of the chain binding it), as an assignment to an
\* outer variable would be.
Environment_set_outer(hp, e, variable, value) ==
    LET chain == Chain(hp, e)
        hits == {i \in 1..Len(chain) : Binds(hp, chain[i], variable)}
        target == IF hits = {} THEN e
                  ELSE chain[CHOOSE i \in hits : \A j \in hits : i <= j]
    IN  [hp EXCEPT ![target].variables = (dict_key(variable) :> value) @@ @]

\* Environment.set: self.variables[variable] = value.
Environment_set(hp, e, variable, value) ==
    [hp EXCEPT ![e].variables = (dict_key(variable) :> value) @@ @]

\* The two environments run_repl builds: builtins, and the global one.
BuiltinsEnv == 1
GlobalEnv == 2
carlae_builtins == [key \in {SymV(n) : n \in BuiltinNames} |-> PrimV(key.v)]
InitHeap == << [variables |-> carlae_builtins, parent |-> 0],
               [variables |-> EmptyDict, parent |-> BuiltinsEnv] >>

(***************************************************************************)
(* Evaluation.  st = [heap, log] is threaded through; an operator returns  *)
(* [st |-> the state it leaves, res |-> the value returned, or the error   *)
(* raised].  Effects made before an exception stay made.                   *)
(***************************************************************************)
R(st, res) == [st |-> st, res |-> res]

Closure(parameters, body, enclosing_env) ==
    [k |-> "closure",
     v |-> [parameters |-> parameters, body |-> body,
            enclosing_env |-> enclosing_env]]

\* create_function
create_function(parameters, body, enclosing_env) ==
    Closure(parameters, body, enclosing_env)

\* assignment(variable, value, env): env.set, then the value.  A list as the
\* name is unhashable: TypeError.  The history records which environments'
\* mappings the call changed and which other environments of the chain
\* bound the name already.
assignment(variable, value, env, st) ==
    IF ~hashable(variable) THEN R(st, Err("TypeError"))
    ELSE LET hp == Environment_set(st.heap, env, variable, value)
             chain == Chain(st.heap, env)
         IN  R([heap |-> hp,
                log |-> Append(st.log,
                          [ev |-> "set", env |-> env, name |-> variable,
                           changed |-> {i \in 1..Len(hp) : hp[i] /= st.heap[i]},
                           ancestors |-> {chain[i] : i \in 2..Len(chain)},
                           shadowed |-> {chain[i] : i \in
                                           {j \in 2..Len(chain) :
                                              Binds(st.heap, chain[j], variable)}}])],
               value)

\* What iterating over self.parameters yields: the elements of a list, the
\* characters of a str.
parameter_list(parameters) ==
    IF parameters.k = "list" THEN parameters.v
    ELSE [i \in 1..Len(parameters.v) |-> SymV(<<parameters.v[i]>>)]

\* A plausible slip: the call's environment chained under the most recently
\* created environment (the running call's) instead of the captured one.
func_env_latest(f, st) ==
    [heap |-> Append(st.heap, [variables |-> EmptyDict, parent |-> Len(st.heap)]),
     log |-> Append(st.log,
               [ev |-> "frame", frame |-> Len(st.heap) + 1,
                captured |-> f.enclosing_env, before |-> Len(st.heap)])]

\* func_env = Environment({}, self.enclosing_env): a new object.
func_env(f, st) ==
    [heap |-> Append(st.heap, [variables |-> EmptyDict, parent |-> f.enclosing_env]),
     log |-> Append(st.log,
               [ev |-> "frame", frame |-> Len(st.heap) + 1,
                captured |-> f.enclosing_env, before |-> Len(st.heap)])]

RECURSIVE evaluate(_, _, _), evaluate_all(_, _, _, _, _), call(_, _, _),
          bind_parameters(_, _, _, _, _)

\* [evaluate(expression, env) for expression in exprs]
evaluate_all(exprs, i, env, acc, st) ==
    IF i > Len(exprs) THEN R(st, ListV(acc))
    ELSE LET r == evaluate(exprs[i], env, st)
         IN  IF IsErr(r.res) THEN r
             ELSE evaluate_all(exprs, i + 1, env, Append(acc, r.res), r.st)

\* for var, val in zip(self.parameters, evaluated_arguments): func_env.set
bind_parameters(params, vals, i, frame, st) ==
    IF i > Len(params) THEN R(st, None)
    ELSE IF ~hashable(params[i]) THEN R(st, Err("TypeError"))
    ELSE bind_parameters(params, vals, i + 1, frame,
                         [st EXCEPT !.heap =
                             Environment_set(@, frame, params[i], vals[i])])

\* CarlaeFunction.call
call(fn, arguments, st) ==
    LET f == fn.v
    IN  IF f.parameters.k \notin {"list", "sym"}
        THEN R(st, Err("TypeError"))
        ELSE IF Len(f.parameters.v) /= Len(arguments)
        THEN R(st, Err("CarlaeEvaluationError"))
        ELSE LET ea == evaluate_all(arguments, 1, f.enclosing_env, <<>>, st)
                 st1 == [ea.st EXCEPT !.log =
                            Append(@, [ev |-> "args", passed |-> ListV(arguments),
                                       evaluated |-> ea.res])]
             IN  IF IsErr(ea.res) THEN R(st1, ea.res)
                 ELSE LET st2 == func_env(f, st1)
                          frame == Len(st2.heap)
                          b == bind_parameters(parameter_list(f.parameters),
                                               ea.res.v, 1, frame, st2)
                      IN  IF IsErr(b.res) THEN b
                          ELSE evaluate(f.body, frame, b.st)

KwAssign == SymV(<<":", "=">>)
KwFunction == SymV(<<"f", "u", "n", "c", "t", "i", "o", "n">>)

\* A plausible slip: a lone builtin called with no arguments, the way a lone
\* closure is.
apply_evaluated_calls(evaluated_expressions, st) ==
    LET func == evaluated_expressions[1]
    IN  IF func.k = "closure"
        THEN IF Len(evaluated_expressions) = 1 THEN call(func, <<>>, st)
             ELSE call(func, Tail(evaluated_expressions), st)
        ELSE IF func.k /= "prim"
        THEN IF Len(evaluated_expressions) = 1 THEN R(st, func)
             ELSE R(st, Err("CarlaeEvaluationError"))
        ELSE R(st, apply_builtin(func.v, Tail(evaluated_expressions)))

\* What evaluate does with the evaluated elements of a combination.
apply_evaluated(evaluated_expressions, st) ==
    LET func == evaluated_expressions[1]
    IN  IF func.k = "closure"
        THEN IF Len(evaluated_expressions) = 1 THEN call(func, <<>>, st)
             ELSE call(func, Tail(evaluated_expressions), st)
        ELSE IF Len(evaluated_expressions) = 1 THEN R(st, func)
        ELSE IF func.k /= "prim" THEN R(st, Err("CarlaeEvaluationError"))
        ELSE R(st, apply_builtin(func.v, Tail(evaluated_expressions)))

\* The application branch of evaluate: every element evaluated in env, then
\* the dispatch on the first value.  The history records what a one-element
\* combination's element evaluated to, what the combination returned and
\* how many environments were created meanwhile.
application(tree, env, st) ==
    LET ev == evaluate_all(tree.v, 1, env, <<>>, st)
    IN  IF IsErr(ev.res) THEN ev
        ELSE LET r == apply_evaluated(ev.res.v, ev.st)
             IN  IF Len(ev.res.v) = 1
                 THEN R([r.st EXCEPT !.log =
                            Append(@, [ev |-> "single", value |-> ev.res.v[1],
                                       res |-> r.res,
                                       frames |-> Len(r.st.heap) - Len(ev.st.heap)])],
                        r.res)
                 ELSE r

evaluate(tree, env, st) ==
    IF tree.k = "list" /\ tree.v = <<>> THEN R(st, ListV(<<>>))
    ELSE IF tree.k \in {"int", "float"} THEN R(st, tree)
    ELSE IF tree.k = "sym"
    THEN LET val == Environment_get(st.heap, env, tree)
             st1 == [st EXCEPT !.log =
                        Append(@, [ev |-> "get", env |-> env, name |-> tree,
                                   value |-> val,
                                   ref |-> RefLookup(st.heap, env, tree)])]
         IN  IF val = None THEN R(st1, Err("CarlaeNameError")) ELSE R(st1, val)
    ELSE IF tree.k = "closure" THEN call(tree, <<>>, st)
    ELSE IF tree.k /= "list" THEN R(st, Err("TypeError"))
    ELSE IF tree.v[1] = KwAssign
    THEN IF Len(tree.v) < 2 THEN R(st, Err("IndexError"))
         ELSE IF tree.v[2].k = "list"
         THEN IF tree.v[2].v = <<>> \/ Len(tree.v) < 3
              THEN R(st, Err("IndexError"))
              ELSE assignment(tree.v[2].v[1],
                              create_function(ListV(Tail(tree.v[2].v)), tree.v[3], env),
                              env, st)
         ELSE IF Len(tree.v) /= 3 THEN R(st, Err("ValueError"))
         ELSE LET r == evaluate(tree.v[3], env, st)
              IN  IF IsErr(r.res) THEN r
                  ELSE assignment(tree.v[2], r.res, env, r.st)
    ELSE IF tree.v[1] = KwFunction
    THEN IF Len(tree.v) /= 3 THEN R(st, Err("ValueError"))
         ELSE R(st, create_function(tree.v[2], tree.v[3], env))
    ELSE application(tree, env, st)

\* run_carlae(raw_carlae_str, global_env): tokenize, parse, evaluate.
run_carlae(raw_carlae_str, hp) ==
    LET parsed == parse(tokenize(raw_carlae_str))
    IN  IF IsErr(parsed) THEN R([heap |-> hp, log |-> <<>>], parsed)
        ELSE evaluate(parsed, GlobalEnv, [heap |-> hp, log |-> <<>>])

(***************************************************************************)
(* Inputs.                                                                 *)
(***************************************************************************)
SeqsUpTo(S, n) == UNION {[1..m -> S] : m \in 0..n}

\* Source texts for the tokenizer: every text of at most MaxSrcLen characters.
SrcAlphabet == {"a", "(", ")", " ", "\n", "#", ":", "="}
Sources == SeqsUpTo(SrcAlphabet, MaxSrcLen)

\* Token lists for the parser: every list of at most MaxTokens tokens.
TokAlphabet == {<<"(">>, <<")">>, <<"a">>}
TokenLists == SeqsUpTo(TokAlphabet, MaxTokens)

\* Operands for the arithmetic builtins: 0, 1, 2, 4, 0.5 and 2.0.
Operands == {IntV(0), IntV(1), IntV(2), IntV(4), FloatV(1, 2), FloatV(2, 1)}
ArithmeticNames == {<<"+">>, <<"-">>, <<"*">>, <<"/">>}
OperandLists == SeqsUpTo(Operands, MaxArgs) \ {<<>>}

\* The lines typed at the REPL.
\* (:= x 0)
SrcSetX0 ==
    <<"(", ":", "=", " ", "x", " ", "0", ")">>
\* (:= x 5)
SrcSetX5 ==
    <<"(", ":", "=", " ", "x", " ", "5", ")">>
\* (:= x 0.0)
SrcSetXFloat0 ==
    <<"(", ":", "=", " ", "x", " ", "0", ".", "0", ")">>
\* (:= x ())
SrcSetXEmpty ==
    <<"(", ":", "=", " ", "x", " ", "(", ")", ")">>
\* x
SrcX ==
    <<"x">>
\* ((function (x) x) 0)
SrcIdZero ==
    <<"(", "(", "f", "u", "n", "c", "t", "i", "o", "n", " ", "(", "x", ")", " ", "x", ")", " ", "0", ")">>
\* (:= (getx) x)
SrcDefGetx ==
    <<"(", ":", "=", " ", "(", "g", "e", "t", "x", ")", " ", "x", ")">>
\* ((function (x) (getx)) 2)
SrcCallerBindsX ==
    <<"(", "(", "f", "u", "n", "c", "t", "i", "o", "n", " ", "(", "x", ")", " ", "(", "g", "e", "t", "x", ")", ")", " ", "2", ")">>
\* ((function () (:= x 2)))
SrcInnerSetX ==
    <<"(", "(", "f", "u", "n", "c", "t", "i", "o", "n", " ", "(", ")", " ", "(", ":", "=", " ", "x", " ", "2", ")", ")", ")">>
\* ((function (a) a) 3)
SrcPassNumber ==
    <<"(", "(", "f", "u", "n", "c", "t", "i", "o", "n", " ", "(", "a", ")", " ", "a", ")", " ", "3", ")">>
\* ((function (a) a) (function () 7))
SrcPassClosure ==
    <<"(", "(", "f", "u", "n", "c", "t", "i", "o", "n", " ", "(", "a", ")", " ", "a", ")", " ", "(", "f", "u", "n", "c", "t", "i", "o", "n", " ", "(", ")", " ", "7", ")", ")">>
\* ((function (a) a) +)
SrcPassPrim ==
    <<"(", "(", "f", "u", "n", "c", "t", "i", "o", "n", " ", "(", "a", ")", " ", "a", ")", " ", "+", ")">>
\* (:= x)
SrcAssignNoValue ==
    <<"(", ":", "=", " ", "x", ")">>
\* (function (a))
SrcFunctionNoBody ==
    <<"(", "f", "u", "n", "c", "t", "i", "o", "n", " ", "(", "a", ")", ")">>
\* (+)
SrcOnePrim ==
    <<"(", "+", ")">>
\* (7)
SrcOneNumber ==
    <<"(", "7", ")">>
\* (getx)
SrcOneClosure ==
    <<"(", "g", "e", "t", "x", ")">>
\* (x 1)
SrcCallNumber ==
    <<"(", "x", " ", "1", ")">>
\* (+ x 1.5)
SrcAddX ==
    <<"(", "+", " ", "x", " ", "1", ".", "5", ")">>
\* ((function (a) a))
SrcOneClosureWithParam ==
    <<"(", "(", "f", "u", "n", "c", "t", "i", "o", "n", " ", "(", "a", ")", " ", "a", ")", ")">>
\* (:= (id a) a)
SrcDefId ==
    <<"(", ":", "=", " ", "(", "i", "d", " ", "a", ")", " ", "a", ")">>
\* ((function () (* (+) (id))))
SrcSinglesOfEachKind ==
    <<"(", "(", "f", "u", "n", "c", "t", "i", "o", "n", " ", "(", ")", " ", "(", "*", " ", "(", "+", ")", " ", "(", "i", "d", ")", ")", ")", ")">>
\* (:= (mk x) (function () x))
SrcDefMk ==
    <<"(", ":", "=", " ", "(", "m", "k", " ", "x", ")", " ", "(", "f", "u", "n", "c", "t", "i", "o", "n", " ", "(", ")", " ", "x", ")", ")">>
\* ((mk 7))
SrcClosureFromFrame ==
    <<"(", "(", "m", "k", " ", "7", ")", ")">>

Programs ==
    {SrcSetX0, SrcSetX5, SrcSetXFloat0, SrcSetXEmpty, SrcX, SrcIdZero,
     SrcDefGetx, SrcCallerBindsX, SrcInnerSetX, SrcPassNumber,
     SrcPassClosure, SrcPassPrim, SrcAssignNoValue, SrcFunctionNoBody,
     SrcOnePrim, SrcOneNumber, SrcOneClosure, SrcCallNumber, SrcAddX,
     SrcOneClosureWithParam, SrcDefId, SrcSinglesOfEachKind, SrcDefMk,
     SrcClosureFromFrame}

(***************************************************************************)
(* The REPL: one global environment, one run_carlae per line.              *)
(***************************************************************************)
Init ==
    /\ stage = "repl"
    /\ source = <<>>
    /\ tokens = <<>>
    /\ result = None
    /\ op = <<>>
    /\ args = <<>>
    /\ heap = InitHeap
    /\ log = <<>>
    /\ runs = 0

\* value = run_carlae(raw_carlae_str, global_env), exceptions caught.
RunCarlae ==
    /\ stage = "repl"
    /\ runs < MaxRuns
    /\ \E src \in Programs :
          LET r == run_carlae(src, heap)
          IN  /\ source' = src
              /\ tokens' = tokenize(src)
              /\ result' = r.res
              /\ heap' = r.st.heap
              /\ log' = r.st.log
    /\ runs' = runs + 1
    /\ UNCHANGED <<stage, op, args>>

Next == RunCarlae

Spec == Init /\ [][Next]_vars

(***************************************************************************)
(* The front end on its own: tokenize a text, parse the tokens.            *)
(***************************************************************************)
InitTok ==
    /\ stage = "source"
    /\ source \in Sources
    /\ tokens = <<>>
    /\ result = None
    /\ op = <<>>
    /\ args = <<>>
    /\ heap = InitHeap
    /\ log = <<>>
    /\ runs = 0

Tokenize ==
    /\ stage = "source"
    /\ tokens' = tokenize(source)
    /\ stage' = "tokens"
    /\ UNCHANGED <<source, result, op, args, heap, log, runs>>

Parse ==
    /\ stage = "tokens"
    /\ result' = parse(tokens)
    /\ stage' = "parsed"
    /\ UNCHANGED <<source, tokens, op, args, heap, log, runs>>

NextTok == Tokenize \/ Parse

SpecTok == InitTok /\ [][NextTok]_vars

\* The parser on token lists.
InitParse ==
    /\ stage = "tokens"
    /\ source = <<>>
    /\ tokens \in TokenLists
    /\ result = None
    /\ op = <<>>
    /\ args = <<>>
    /\ heap = InitHeap
    /\ log = <<>>
    /\ runs = 0

NextParse == Parse

SpecParse == InitParse /\ [][NextParse]_vars

(***************************************************************************)
(* An arithmetic builtin applied to a list of numbers.                     *)
(***************************************************************************)
InitArith ==
    /\ stage = "args"
    /\ source = <<>>
    /\ tokens = <<>>
    /\ result = None
    /\ op \in ArithmeticNames
    /\ args \in OperandLists
    /\ heap = InitHeap
    /\ log = <<>>
    /\ runs = 0

Apply ==
    /\ stage = "args"
    /\ result' = apply_builtin(op, args)
    /\ stage' = "applied"
    /\ UNCHANGED <<source, tokens, op, args, heap, log, runs>>

NextArith == Apply

SpecArith == InitArith /\ [][NextArith]_vars

(***************************************************************************)
(* Properties.                                                             *)
(***************************************************************************)
Events(kind) == {i \in 1..Len(log) : log[i].ev = kind}
NameX == SymV(<<"x">>)

\* C1: every symbol evaluation returns the value held by the nearest
\* environment of the chain whose own mapping contains the name, whatever
\* that value is, and finds the name unbound only when no environment of
\* the chain contains it.
C1_LookupFollowsPresence ==
    \A i \in Events("get") : log[i].value = log[i].ref

\* C2: an assignment evaluated in environment E changes E's own mapping
\* only: no other environment's mapping changes, none of E's ancestors in
\* particular, and the builtins root keeps its bindings.
C2_AssignmentWritesOwnFrame ==
    /\ \A i \in Events("set") :
          /\ log[i].changed \subseteq {log[i].env}
          /\ log[i].changed \cap log[i].ancestors = {}
    /\ stage = "repl" => heap[BuiltinsEnv] = InitHeap[BuiltinsEnv]

\* C2, reached: an assignment ran inside a closure call while the global
\* environment bound the same name, and changed the call's environment.
C2_Witness ==
    \E i \in Events("set") :
        /\ log[i].env > GlobalEnv
        /\ GlobalEnv \in log[i].shadowed
        /\ log[i].changed = {log[i].env}

\* C3: every closure call runs in a new environment whose parent is the
\* environment the closure captured, and a closure reading x, called from a
\* scope that binds x itself, returns the global x, not the caller's.
C3_LexicalScoping ==
    /\ \A i \in Events("frame") :
          /\ log[i].frame > log[i].before
          /\ heap[log[i].frame].parent = log[i].captured
    /\ (source = SrcCallerBindsX /\ ~IsErr(result))
          => result = RefLookup(heap, GlobalEnv, NameX)

\* C3, reached: getx was called from a scope binding x to 2 and returned the
\* global 5.
C3_Witness ==
    /\ source = SrcCallerBindsX
    /\ result = IntV(5)
    /\ \E i \in Events("frame") :
          /\ Binds(heap, log[i].frame, NameX)
          /\ heap[log[i].frame].variables[NameX] = IntV(2)

\* C4: a run never ends with an error outside CarlaeSyntaxError,
\* CarlaeNameError and CarlaeEvaluationError, and a `:=` or `function` form
\* with the wrong number of elements ends with CarlaeEvaluationError.
C4_ClassifiedErrors ==
    (stage = "repl" /\ IsErr(result)) =>
        /\ result.v \in CarlaeErrors
        /\ source \in {SrcAssignNoValue, SrcFunctionNoBody}
              => result = Err("CarlaeEvaluationError")

\* C5: a source text with no tokens fails to parse with CarlaeSyntaxError.
C5_EmptyProgramIsSyntaxError ==
    (stage = "parsed" /\ tokens = <<>>) => result = Err("CarlaeSyntaxError")

\* The nesting depth after the first j tokens of s.
DepthAfter(s, j) ==
    Cardinality({i \in 1..j : s[i] = <<"(">>})
        - Cardinality({i \in 1..j : s[i] = <<")">>})

\* One balanced parenthesized group: "(" first, ")" last, and in between the
\* depth never negative and 0 at the end.
OneBalancedGroup(toks) ==
    /\ Len(toks) >= 2
    /\ toks[1] = <<"(">>
    /\ toks[Len(toks)] = <<")">>
    /\ LET inner == SubSeq(toks, 2, Len(toks) - 1)
       IN  /\ \A j \in 1..Len(inner) : DepthAfter(inner, j) >= 0
           /\ DepthAfter(inner, Len(inner)) = 0

\* C6: on two or more tokens parse returns a combination exactly when the
\* tokens are one balanced parenthesized group, and fails with
\* CarlaeSyntaxError otherwise.
C6_BalanceValidatedExactly ==
    (stage = "parsed" /\ Len(tokens) >= 2) =>
        IF OneBalancedGroup(tokens) THEN result.k = "list"
        ELSE result = Err("CarlaeSyntaxError")

\* C6, reached: a balanced group with a nested group inside was parsed into
\* a combination holding a combination.
C6_Witness ==
    /\ stage = "parsed"
    /\ OneBalancedGroup(tokens)
    /\ \E i \in 2..(Len(tokens) - 1) : tokens[i] = <<"(">>
    /\ result.k = "list"
    /\ \E i \in 1..Len(result.v) : result.v[i].k = "list"

AllInt(xs) == \A i \in 1..Len(xs) : xs[i].k = "int"

\* C7 as stated: the result of +, -, * or / is an integer when every operand
\* is an integer and a float when some operand is a float.
C7_PromotionAsStated ==
    (stage = "applied" /\ ~IsErr(result)) =>
        result.k = (IF AllInt(args) THEN "int" ELSE "float")

\* C7, amended: that holds of +, - and *; a / of two or more operands is a
\* float whatever the operands are, and a / of one operand is that operand.
C7_PromotionWithTrueDivision ==
    (stage = "applied" /\ ~IsErr(result)) =>
        IF op = <<"/">>
        THEN IF Len(args) = 1 THEN result = args[1] ELSE result.k = "float"
        ELSE result.k = (IF AllInt(args) THEN "int" ELSE "float")

\* C7, reached: integers were divided and the quotient is a float.
C7_Witness ==
    /\ stage = "applied"
    /\ op = <<"/">>
    /\ Len(args) >= 2
    /\ AllInt(args)
    /\ result.k = "float"

\* C8: the values a closure's parameters are bound to are exactly the values
\* its arguments evaluated to in the caller's environment.
C8_ArgumentsPassedUnchanged ==
    \A i \in Events("args") : log[i].evaluated = log[i].passed

\* C9 as stated: a one-element combination returns the value of its element,
\* nothing being invoked.
C9_SingleNeverCalls ==
    \A i \in Events("single") :
        log[i].res = log[i].value /\ log[i].frames = 0

\* C9, amended: a one-element combination whose element's value is not a
\* closure returns that value, nothing being invoked; when the value is a
\* closure it is called with no arguments: its body runs in a new
\* environment if it has no parameters, and the call fails with
\* CarlaeEvaluationError if it has some.
C9_SingleCallsOnlyClosures ==
    \A i \in Events("single") :
        IF log[i].value.k /= "closure"
        THEN log[i].res = log[i].value /\ log[i].frames = 0
        ELSE IF Len(parameter_list(log[i].value.v.parameters)) = 0
        THEN log[i].frames >= 1
        ELSE log[i].res = Err("CarlaeEvaluationError") /\ log[i].frames = 0

\* C9, reached: in one run a lone builtin was returned as it is, a lone
\* closure without parameters was called, and a lone closure with a
\* parameter failed the arity check.
C9_Witness ==
    /\ source = SrcSinglesOfEachKind
    /\ result = Err("CarlaeEvaluationError")
    /\ \E i \in Events("single") :
          log[i].value = PrimV(<<"+">>) /\ log[i].res = log[i].value
    /\ \E i \in Events("single") :
          /\ log[i].value.k = "closure"
          /\ Len(parameter_list(log[i].value.v.parameters)) = 0
          /\ log[i].frames >= 1
    /\ \E i \in Events("single") :
          /\ log[i].value.k = "closure"
          /\ Len(parameter_list(log[i].value.v.parameters)) = 1
          /\ log[i].res = Err("CarlaeEvaluationError")
          /\ log[i].frames = 0

\* The text with every comment removed: each run from a "#" up to, not
\* including, the next newline or the end.
RECURSIVE StripComments(_, _, _)
StripComments(src, i, in_comment) ==
    IF i > Len(src) THEN <<>>
    ELSE IF src[i] = "\n" THEN <<"\n">> \o StripComments(src, i + 1, FALSE)
    ELSE IF in_comment \/ src[i] = "#" THEN StripComments(src, i + 1, TRUE)
    ELSE <<src[i]>> \o StripComments(src, i + 1, FALSE)

\* C10: the tokens of a text are the tokens of the text with its comments
\* removed.
C10_CommentsContributeNothing ==
    stage \in {"tokens", "parsed"} =>
        tokens = tokenize(StripComments(source, 1, FALSE))

\* C10, reached: a comment started right after a pending token and held a
\* parenthesis; the token was emitted once and the parenthesis was not.
C10_Witness ==
    /\ stage = "tokens"
    /\ \E i \in 2..(Len(source) - 1) :
          /\ source[i] = "#"
          /\ source[i - 1] = "a"
          /\ source[i + 1] \in parenthesis
          /\ \A j \in 1..(i - 2) : source[j] = " "
    /\ tokens = << <<"a">> >>

====
